---- MODULE Spec2Model ----
(***************************************************************************)
(* A model of the vscode-manuals extension (src/src/extension.ts):         *)
(*   parseManEntry, systemManuals, provideTextDocumentContent,             *)
(*   provideDocumentLinks and provideFoldingRanges.                        *)
(*                                                                         *)
(* A JavaScript string is modelled as a sequence of one-character strings. *)
(* Every handler is synchronous; one specification per handler draws the    *)
(* handler's input in Init and runs the handler's code.                    *)
(***************************************************************************)
EXTENDS Integers, Sequences, FiniteSets, TLC

VARIABLES
    pc,         \* control point of the running handler
    text,       \* the handler's input text (apropos line, uri.path, document text)
    lines,      \* const lines = document.getText().split('\n')
    i,          \* loop index of the for loops
    foldStart,  \* let foldStart (provideFoldingRanges)
    result,     \* let result: the array the providers fill
    entry,      \* the ManEntry an address is built from
    proc,       \* what child_process.spawnSync returned
    outcome     \* how the handler ended: what it returned or what it threw

vars == <<pc, text, lines, i, foldStart, result, entry, proc, outcome>>

(***************************************************************************)
(* Bounds of the model.                                                    *)
(***************************************************************************)
MaxLineLen == 5
MaxFieldLen == 2
MaxTokens == 5
MaxFoldLines == 12
MaxHeadLen == 3

(***************************************************************************)
(* Character classes of JavaScript regular expressions and of trimEnd.     *)
(***************************************************************************)
LowerCase == {"a", "b"}
UpperCase == {"A", "B"}
Digit == {"1"}
\* \s: what String.prototype.trimEnd strips
WhiteSpace == {" ", "\t"}
\* \w is [A-Za-z0-9_]
WordChar == LowerCase \cup UpperCase \cup Digit \cup {"_"}

Strings(Alpha, n) == UNION {[1..k -> Alpha] : k \in 0..n}

Contains(s, c) == \E k \in 1..Len(s) : s[k] = c

\* 1-based index of the first c in s, 0 when there is none (indexOf + 1)
IndexOf(s, c) ==
    IF Contains(s, c)
    THEN CHOOSE k \in 1..Len(s) : s[k] = c /\ \A j \in 1..(k - 1) : s[j] # c
    ELSE 0

\* String.prototype.split with a one-character separator: every occurrence
\* of the separator splits, and the array always has at least one element.
RECURSIVE Split(_, _)
Split(s, c) ==
    LET p == IndexOf(s, c)
    IN  IF p = 0
        THEN <<s>>
        ELSE <<SubSeq(s, 1, p - 1)>> \o Split(SubSeq(s, p + 1, Len(s)), c)

\* trimEnd left out: the head is taken as it is
TrimEndNone(s) == s

\* String.prototype.trimEnd
RECURSIVE TrimEnd(_)
TrimEnd(s) ==
    IF s = <<>> \/ s[Len(s)] \notin WhiteSpace
    THEN s
    ELSE TrimEnd(SubSeq(s, 1, Len(s) - 1))

(***************************************************************************)
(* Outcomes of a handler.                                                  *)
(***************************************************************************)
NoEntry == [name |-> <<>>, section |-> <<>>]
NoProc == [error |-> FALSE, status |-> 0, stdout |-> <<>>]
Pending == [status |-> "pending", error |-> "none", entry |-> NoEntry, value |-> <<>>]
Returned(e, v) == [status |-> "returned", error |-> "none", entry |-> e, value |-> v]
Threw(err) == [status |-> "threw", error |-> err, entry |-> NoEntry, value |-> <<>>]

(***************************************************************************)
(* parseManEntry (lines 10-17).  parts[1] of a one-element array is        *)
(* undefined, and undefined.split throws a TypeError.                      *)
(***************************************************************************)
parseManEntry(apropos) ==
    LET parts == Split(apropos, "(")
    IN  IF Len(parts) < 2
        THEN Threw("TypeError")
        ELSE Returned([name |-> TrimEnd(parts[1]),
                       section |-> Split(parts[2], ")")[1]], <<>>)

(***************************************************************************)
(* Specification SpecParse: parseManEntry on one apropos line.             *)
(***************************************************************************)
ParseAlphabet == {"a", "1", " ", "\t", "(", ")"}
\* the apropos lines of at most n characters
AproposLines(n) == Strings(ParseAlphabet, n)

InitParse ==
    /\ pc = "parse"
    /\ text \in AproposLines(MaxLineLen)
    /\ lines = <<>>
    /\ i = 0
    /\ foldStart = 0
    /\ result = <<>>
    /\ entry = NoEntry
    /\ proc = NoProc
    /\ outcome = Pending

ParseLine ==
    /\ pc = "parse"
    /\ outcome' = parseManEntry(text)
    /\ pc' = "done"
    /\ UNCHANGED <<text, lines, i, foldStart, result, entry, proc>>

NextParse == ParseLine

SpecParse == InitParse /\ [][NextParse]_vars

(***************************************************************************)
(* Vocabulary of the claims about parseManEntry.                           *)
(***************************************************************************)
\* the text before the first '(' and the text after it
HeadOf(t) == SubSeq(t, 1, IndexOf(t, "(") - 1)
TailOf(t) == SubSeq(t, IndexOf(t, "(") + 1, Len(t))
\* the text of s before its first c
Before(s, c) == SubSeq(s, 1, IndexOf(s, c) - 1)
\* n is h without its trailing whitespace
IsEndTrimOf(n, h) ==
    /\ Len(n) <= Len(h)
    /\ n = SubSeq(h, 1, Len(n))
    /\ \A k \in (Len(n) + 1)..Len(h) : h[k] \in WhiteSpace
    /\ (n = <<>> \/ n[Len(n)] \notin WhiteSpace)
Parsed == pc = "done" /\ Contains(text, "(")

\* C1 (as claimed): for every line with a '(' parseManEntry returns the entry
\* whose name is the head with trailing whitespace trimmed and whose section
\* is the tail up to its first ')', also when the tail holds a further '('
\* before that ')'.
C1_SectionUpToFirstClose ==
    Parsed =>
        /\ outcome.status = "returned"
        /\ IsEndTrimOf(outcome.entry.name, HeadOf(text))
        /\ Contains(TailOf(text), ")") =>
               outcome.entry.section = Before(TailOf(text), ")")

\* C1, outside the failing case: the same statement for the lines whose tail
\* holds no '(' before its first ')'.
C1_WhenNoOpenBeforeClose ==
    (Parsed /\ ~Contains(Before(TailOf(text), ")"), "(")) =>
        /\ outcome.status = "returned"
        /\ IsEndTrimOf(outcome.entry.name, HeadOf(text))
        /\ Contains(TailOf(text), ")") =>
               outcome.entry.section = Before(TailOf(text), ")")

\* C2 (as claimed): for every line without a '(' (the empty line included)
\* parseManEntry fails with the MalformedEntry error kind, not through an
\* access to an undefined element.
C2_NoParenIsMalformedEntry ==
    (pc = "done" /\ ~Contains(text, "(")) =>
        /\ outcome.status = "threw"
        /\ outcome.error = "MalformedEntry"

\* C9 (as claimed): for every line with a '(' the returned name neither starts
\* nor ends with a whitespace character.
C9_NameStrippedBothEnds ==
    Parsed =>
        /\ outcome.status = "returned"
        /\ LET n == outcome.entry.name
           IN  n # <<>> => (n[1] \notin WhiteSpace /\ n[Len(n)] \notin WhiteSpace)

\* C9 (amended): for every line with a '(' the returned name is the head with
\* its trailing whitespace stripped, so it never ends with a whitespace
\* character; leading whitespace of the head is kept.
C9_NameStrippedAtEnd ==
    Parsed =>
        /\ outcome.status = "returned"
        /\ IsEndTrimOf(outcome.entry.name, HeadOf(text))
        /\ LET n == outcome.entry.name
           IN  n # <<>> => (n[Len(n)] \notin WhiteSpace /\ n[1] = HeadOf(text)[1])

\* witness of C9: a head with leading and trailing whitespace was parsed
C9_Witness ==
    /\ Parsed
    /\ Len(HeadOf(text)) >= 3
    /\ HeadOf(text)[1] \in WhiteSpace
    /\ HeadOf(text)[Len(HeadOf(text))] \in WhiteSpace
    /\ outcome.entry.name # <<>>
    /\ outcome.entry.name[1] \in WhiteSpace

(***************************************************************************)
(* Specification SpecMan: opening a page and listing the manuals.          *)
(*   address       the address text '<name> (<section>)' is built from a   *)
(*                 ManEntry and becomes uri.path                           *)
(*   fetch         provideTextDocumentContent(uri)                         *)
(*   list          systemManuals()                                         *)
(***************************************************************************)
EntryAlphabet == {"a", "1", " ", "(", ")"}
\* the entries whose fields have at most n characters
Entries(n) ==
    [name : Strings(EntryAlphabet, n), section : Strings(EntryAlphabet, n)]
\* uri.path of a document opened without an entry behind it
UriPaths == Strings({"a", "(", ")"}, 2)

\* What spawnSync can return: error is set when the process could not be
\* launched (status and stdout are then null); otherwise status is the exit
\* status and stdout what the process wrote.
SpawnResults ==
    {[error |-> TRUE, status |-> -1, stdout |-> <<>>]}
    \cup [error : {FALSE}, status : {0, 1, 16},
          stdout : {<<>>, <<"A", "\n", "a">>}]

\* the address text of an entry: '<name> (<section>)'
FormatAddress(e) == e.name \o <<" ", "(">> \o e.section \o <<")">>

\* lines 34-37 and 22-25: only proc.error is looked at
SpawnFailed(p) == p.error

InitMan ==
    /\ \/ pc = "address" /\ entry \in Entries(MaxFieldLen) /\ text = <<>>
       \/ pc = "fetch" /\ entry = NoEntry /\ text \in UriPaths
       \/ pc = "list" /\ entry = NoEntry /\ text = <<>>
    /\ lines = <<>>
    /\ i = 0
    /\ foldStart = 0
    /\ result = <<>>
    /\ proc = NoProc
    /\ outcome = Pending

OpenAddress ==
    /\ pc = "address"
    /\ text' = FormatAddress(entry)
    /\ pc' = "fetch"
    /\ UNCHANGED <<lines, i, foldStart, result, entry, proc, outcome>>

\* provideTextDocumentContent (lines 31-38)
ProvideTextDocumentContent ==
    /\ pc = "fetch"
    /\ LET parsed == parseManEntry(text)
       IN  IF parsed.status = "threw"
           THEN /\ outcome' = parsed
                /\ proc' = proc
           ELSE \E p \in SpawnResults :
                   /\ proc' = p
                   /\ outcome' = IF SpawnFailed(p)
                                 THEN Threw("is man installed?")
                                 ELSE Returned(parsed.entry, p.stdout)
    /\ pc' = "fetched"
    /\ UNCHANGED <<text, lines, i, foldStart, result, entry>>

\* systemManuals (lines 19-27): a throw in the executor rejects the promise
SystemManuals ==
    /\ pc = "list"
    /\ \E p \in SpawnResults :
          /\ proc' = p
          /\ outcome' = IF SpawnFailed(p)
                        THEN Threw("is man installed?")
                        ELSE Returned(NoEntry, Split(p.stdout, "\n"))
    /\ pc' = "listed"
    /\ UNCHANGED <<text, lines, i, foldStart, result, entry>>

NextMan == OpenAddress \/ ProvideTextDocumentContent \/ SystemManuals

SpecMan == InitMan /\ [][NextMan]_vars

NoParen(s) == ~Contains(s, "(") /\ ~Contains(s, ")")
\* the address of an entry was parsed
RoundTripped == pc = "fetched" /\ text = FormatAddress(entry)

\* C3 (as claimed): for every ManEntry e whose name contains no parenthesis,
\* parsing the address text '<name> (<section>)' yields e in both fields.
C3_RoundTrip ==
    (RoundTripped /\ NoParen(entry.name) /\ outcome.status = "returned") =>
        outcome.entry = entry

\* C3 (amended): for every ManEntry e whose name contains no parenthesis and
\* does not end with whitespace and whose section contains no parenthesis,
\* parsing the address text '<name> (<section>)' yields e in both fields.
C3_RoundTripOfParsedEntries ==
    (/\ RoundTripped
     /\ NoParen(entry.name)
     /\ (entry.name = <<>> \/ entry.name[Len(entry.name)] \notin WhiteSpace)
     /\ NoParen(entry.section)
     /\ ~proc.error) =>
        /\ outcome.status = "returned"
        /\ outcome.entry = entry

\* witness of C3: an entry with a name and a section went round
C3_Witness ==
    /\ RoundTripped
    /\ Len(entry.name) >= 2
    /\ entry.name[1] \in WhiteSpace
    /\ NoParen(entry.name)
    /\ entry.section # <<>>
    /\ NoParen(entry.section)
    /\ outcome.status = "returned"
    /\ outcome.entry = entry

\* C10 (as claimed): fetching a page and listing the manuals end in an error,
\* never in returned text, when the man process fails to launch or exits with
\* a non-zero status.
C10_ErrorOnLaunchFailureOrNonZeroExit ==
    ((pc = "listed" \/ (pc = "fetched" /\ Contains(text, "(")))
        /\ (proc.error \/ proc.status # 0)) =>
        outcome.status = "threw"

\* C10, the half the code keeps: a process that did not launch ends both
\* operations in an error.
C10_ErrorOnLaunchFailure ==
    ((pc = "listed" \/ (pc = "fetched" /\ Contains(text, "("))) /\ proc.error) =>
        outcome.status = "threw"

(***************************************************************************)
(* Specification SpecLinks: provideDocumentLinks (lines 44-63).            *)
(* The regular expression /[a-z][\w-]+\(\d\)/g is run as the engine runs   *)
(* it: from lastIndex, at each start position the greedy [\w-]+ takes the  *)
(* longest run and gives characters back until \(\d\) follows.             *)
(***************************************************************************)
RECURSIVE Flatten(_)
Flatten(ts) == IF ts = <<>> THEN <<>> ELSE Head(ts) \o Flatten(Tail(ts))

LinkTokens ==
    {<<"a">>, <<"-">>, <<"1">>, <<"(">>, <<")">>, <<" ">>, <<"\n">>,
     <<"a", "b">>, <<"(", "1", ")">>}
\* the document texts made of at most n tokens
LinkTexts(n) == {Flatten(ts) : ts \in Strings(LinkTokens, n)}

\* [\w-]
NameChar == WordChar \cup {"-"}

\* the character at 0-based index k, "" past the end
CharAt(line, k) == IF k >= 0 /\ k < Len(line) THEN line[k + 1] ELSE ""

\* how many characters from 0-based index k on are in [\w-]
RECURSIVE RunLen(_, _)
RunLen(line, k) ==
    IF CharAt(line, k) \in NameChar THEN 1 + RunLen(line, k + 1) ELSE 0

\* \(\d+\) at 0-based index k: a section of one or more digits
SectionAtManyDigits(line, k) ==
    /\ CharAt(line, k) = "("
    /\ CharAt(line, k + 1) \in Digit
    /\ \E n \in 1..Len(line) :
          /\ \A j \in 1..n : CharAt(line, k + j) \in Digit
          /\ CharAt(line, k + n + 1) = ")"

\* \(\d\) at 0-based index k
SectionAt(line, k) ==
    /\ CharAt(line, k) = "("
    /\ CharAt(line, k + 1) \in Digit
    /\ CharAt(line, k + 2) = ")"

\* [\w-]+ holding r characters from index s + 1: the length of the whole
\* match at s, trying r, r - 1, ..., 1; 0 when none is followed by \(\d\)
RECURSIVE Backtrack(_, _, _)
Backtrack(line, s, r) ==
    IF r < 1 THEN 0
    ELSE IF SectionAt(line, s + 1 + r) THEN 1 + r + 3
    ELSE Backtrack(line, s, r - 1)

\* the length of the match that starts at 0-based index s, 0 when none does
MatchLenAt(line, s) ==
    IF CharAt(line, s) \in LowerCase
    THEN Backtrack(line, s, RunLen(line, s + 1))
    ELSE 0

NoMatch == [index |-> -1, length |-> 0]

\* RegExp exec from lastIndex: the first start position that matches
RECURSIVE RegexExec(_, _)
RegexExec(line, lastIndex) ==
    IF lastIndex >= Len(line) THEN NoMatch
    ELSE IF MatchLenAt(line, lastIndex) > 0
         THEN [index |-> lastIndex, length |-> MatchLenAt(line, lastIndex)]
         ELSE RegexExec(line, lastIndex + 1)

\* pos.translate(length): the length taken as the line delta
MakeLinkLineDelta(line, lineNo, m) ==
    [start |-> [line |-> lineNo, character |-> m.index],
     end |-> [line |-> lineNo + m.length, character |-> m.index],
     target |-> SubSeq(line, m.index + 1, m.index + m.length)]

\* lines 56-58: the link of one match: Range(pos, pos.translate(0, length))
\* and the uri 'man:' + match
MakeLink(line, lineNo, m) ==
    [start |-> [line |-> lineNo, character |-> m.index],
     end |-> [line |-> lineNo, character |-> m.index + m.length],
     target |-> SubSeq(line, m.index + 1, m.index + m.length)]

\* lines 54-60: the links of the matches matchAll finds from lastIndex on
RECURSIVE LinksOfLine(_, _, _)
LinksOfLine(line, lineNo, lastIndex) ==
    LET m == RegexExec(line, lastIndex)
    IN  IF m = NoMatch THEN <<>>
        ELSE <<MakeLink(line, lineNo, m)>>
             \o LinksOfLine(line, lineNo, m.index + m.length)

InitLinks ==
    /\ pc = "links"
    /\ text \in LinkTexts(MaxTokens)
    /\ lines = Split(text, "\n")
    /\ i = 0
    /\ foldStart = 0
    /\ result = <<>>
    /\ entry = NoEntry
    /\ proc = NoProc
    /\ outcome = Pending

\* one turn of the for loop of line 47
LinkScanLine ==
    /\ pc = "links"
    /\ i < Len(lines)
    /\ result' = result \o LinksOfLine(lines[i + 1], i, 0)
    /\ i' = i + 1
    /\ UNCHANGED <<pc, text, lines, foldStart, entry, proc, outcome>>

\* line 62
LinkReturn ==
    /\ pc = "links"
    /\ i >= Len(lines)
    /\ outcome' = Returned(NoEntry, result)
    /\ pc' = "done"
    /\ UNCHANGED <<text, lines, i, foldStart, result, entry, proc>>

NextLinks == LinkScanLine \/ LinkReturn

SpecLinks == InitLinks /\ [][NextLinks]_vars

(***************************************************************************)
(* Vocabulary of the claims about provideDocumentLinks.                    *)
(***************************************************************************)
\* the n characters of line from 0-based column s are: one lowercase letter,
\* one or more word characters or hyphens, '(', exactly one digit, ')'
IsRef(line, s, n) ==
    /\ n >= 5
    /\ s >= 0
    /\ s + n <= Len(line)
    /\ line[s + 1] \in LowerCase
    /\ \A k \in 2..(n - 3) : line[s + k] \in WordChar \cup {"-"}
    /\ line[s + n - 2] = "("
    /\ line[s + n - 1] \in Digit
    /\ line[s + n] = ")"
SpanLen(r) == r.end.character - r.start.character
LinksDone == pc = "done" /\ outcome.status = "returned"

\* C4: the spans returned are the leftmost non-overlapping matches of the
\* pattern on each line: every span is a match on its line with the match's
\* start column and length, the spans come in increasing line order and within
\* a line in increasing column order without overlap, and every match of a
\* line starts inside a returned span; so a line with only '(1)' or only
\* 'ab(11)' yields no span.
C4_SpansAreLeftmostMatches ==
    LinksDone =>
        LET rs == outcome.value
        IN  /\ \A j \in 1..Len(rs) :
                  /\ rs[j].start.line \in 0..(Len(lines) - 1)
                  /\ IsRef(lines[rs[j].start.line + 1], rs[j].start.character,
                           SpanLen(rs[j]))
            /\ \A j, k \in 1..Len(rs) :
                  j < k =>
                      \/ rs[j].start.line < rs[k].start.line
                      \/ /\ rs[j].start.line = rs[k].start.line
                         /\ rs[j].end.character <= rs[k].start.character
            /\ \A l \in 1..Len(lines) :
                  \A s \in 0..Len(lines[l]) :
                      \A n \in 5..Len(lines[l]) :
                          IsRef(lines[l], s, n) =>
                              \E j \in 1..Len(rs) :
                                  /\ rs[j].start.line = l - 1
                                  /\ rs[j].start.character <= s
                                  /\ s < rs[j].end.character
            /\ \A l \in 1..Len(lines) :
                  (lines[l] = <<"(", "1", ")">>
                      \/ lines[l] = <<"a", "b", "(", "1", "1", ")">>) =>
                      \A j \in 1..Len(rs) : rs[j].start.line # l - 1

\* witness of C4: two lines with a reference each gave two spans in line order
C4_Witness ==
    /\ LinksDone
    /\ Len(lines) = 2
    /\ Len(outcome.value) = 2
    /\ outcome.value[1].start.line = 0
    /\ outcome.value[2].start.line = 1

\* a reference split by the line break: line l (1-based) ends with a name and
\* the next line starts with '(d)'
SplitRefAt(l) ==
    /\ l < Len(lines)
    /\ Len(lines[l]) >= 2
    /\ lines[l][Len(lines[l]) - 1] \in LowerCase
    /\ lines[l][Len(lines[l])] \in WordChar \cup {"-"}
    /\ Len(lines[l + 1]) >= 3
    /\ SubSeq(lines[l + 1], 1, 3) = <<"(", "1", ")">>

\* C8: every returned span lies within one line: it starts and ends on the
\* same line and ends no later than that line's end; and where a reference is
\* split by a line break no span reaches the end of the first line or covers
\* the '(d)' that starts the next one.
C8_SpansWithinOneLine ==
    LinksDone =>
        LET rs == outcome.value
        IN  /\ \A j \in 1..Len(rs) :
                  /\ rs[j].start.line = rs[j].end.line
                  /\ rs[j].start.line \in 0..(Len(lines) - 1)
                  /\ rs[j].start.character >= 0
                  /\ SpanLen(rs[j]) > 0
                  /\ rs[j].end.character <= Len(lines[rs[j].start.line + 1])
            /\ \A l \in 1..Len(lines) :
                  SplitRefAt(l) =>
                      \A j \in 1..Len(rs) :
                          /\ ~(/\ rs[j].start.line = l - 1
                               /\ rs[j].end.character = Len(lines[l])
                               /\ lines[l][Len(lines[l])] # ")")
                          /\ ~(/\ rs[j].start.line = l
                               /\ rs[j].start.character < 3)

\* witness of C8: a reference split by a line break was scanned, and a span
\* was returned that ends at the end of its line
C8_Witness ==
    /\ LinksDone
    /\ \E l \in 1..Len(lines) : SplitRefAt(l)
    /\ \E j \in 1..Len(outcome.value) :
          outcome.value[j].end.character
              = Len(lines[outcome.value[j].start.line + 1])

(***************************************************************************)
(* Specification SpecFolds: provideFoldingRanges (lines 69-93).            *)
(* /^[A-Z"_.:'][A-Za-z"_.:' ,-]+$/ is run as the engine runs it: the first *)
(* class on the first character, then the greedy second class, which must  *)
(* take at least one character and reach the end of the line.              *)
(***************************************************************************)
\* [A-Z"_.:']
HeadFirst == UpperCase \cup {"\"", "_", ".", ":", "'"}
\* [A-Za-z"_.:' ,-]
HeadRest == UpperCase \cup LowerCase \cup {"\"", "_", ".", ":", "'", " ", ",", "-"}

\* how many characters from 0-based index k on are in the second class
RECURSIVE RestRun(_, _)
RestRun(line, k) ==
    IF CharAt(line, k) \in HeadRest THEN 1 + RestRun(line, k + 1) ELSE 0

\* the second class under * instead of +
MatchHeadingStar(line) ==
    /\ CharAt(line, 0) \in HeadFirst
    /\ 1 + RestRun(line, 1) = Len(line)

\* line 78: lines[i].match(...) is not null
MatchHeading(line) ==
    /\ CharAt(line, 0) \in HeadFirst
    /\ RestRun(line, 1) >= 1
    /\ 1 + RestRun(line, 1) = Len(line)

\* the region closed at i instead of i - 1
ClosedRegionThroughHeading(start, at) == [start |-> start, end |-> at]

\* line 80: the region closed by the heading at line `at`
ClosedRegion(start, at) == [start |-> start, end |-> at - 1]

\* line 88
FooterBoundary(n) == n - 4

\* foldStart > to instead of foldStart >= to
InvalidFinalRegionStrict(start, to) == start > to

\* line 89
InvalidFinalRegion(start, to) == start >= to

InvalidManPage == "Can't create final FoldingRange: invalid man page"

RECURSIVE Join(_, _)
Join(ls, c) ==
    IF ls = <<>> THEN <<>>
    ELSE IF Len(ls) = 1 THEN ls[1]
    ELSE ls[1] \o <<c>> \o Join(Tail(ls), c)

HeadingLine == <<"A", "B">>
BodyLine == <<" ", "a">>
\* pages of heading lines and body lines
ShapedPages(n) == UNION {[1..k -> {HeadingLine, BodyLine}] : k \in 1..n}
\* every short line at index 3 of a page that has room for a section after it
HeadAlphabet == {"A", "a", "\"", "_", ".", ":", "'", " ", ",", "-", "1"}
ProbePages(m) ==
    {<<HeadingLine, <<>>, HeadingLine, x, BodyLine, BodyLine, <<>>, BodyLine, <<>>>> :
        x \in Strings(HeadAlphabet, m)}
FoldTexts(n, m) == {Join(p, "\n") : p \in ShapedPages(n) \cup ProbePages(m)}

InitFolds ==
    /\ pc = "folds"
    /\ text \in FoldTexts(MaxFoldLines, MaxHeadLen)
    /\ lines = Split(text, "\n")
    /\ i = 3
    /\ foldStart = 2
    /\ result = <<>>
    /\ entry = NoEntry
    /\ proc = NoProc
    /\ outcome = Pending

\* one turn of the for loop of line 75
FoldScanLine ==
    /\ pc = "folds"
    /\ i < Len(lines)
    /\ IF MatchHeading(lines[i + 1])
       THEN /\ result' = Append(result, ClosedRegion(foldStart, i))
            /\ foldStart' = i
       ELSE UNCHANGED <<result, foldStart>>
    /\ i' = i + 1
    /\ UNCHANGED <<pc, text, lines, entry, proc, outcome>>

\* lines 88-92
FoldFinish ==
    /\ pc = "folds"
    /\ i >= Len(lines)
    /\ LET to == FooterBoundary(Len(lines))
       IN  IF InvalidFinalRegion(foldStart, to)
           THEN /\ outcome' = Threw(InvalidManPage)
                /\ result' = result
           ELSE /\ result' = Append(result, [start |-> foldStart, end |-> to])
                /\ outcome' = Returned(NoEntry, result')
    /\ pc' = "done"
    /\ UNCHANGED <<text, lines, i, foldStart, entry, proc>>

NextFolds == FoldScanLine \/ FoldFinish

SpecFolds == InitFolds /\ [][NextFolds]_vars

(***************************************************************************)
(* Vocabulary of the claims about provideFoldingRanges.                    *)
(***************************************************************************)
\* the 0-based indices >= 3 of the lines classified as headings
HeadingLines == {k \in 3..(Len(lines) - 1) : MatchHeading(lines[k + 1])}
FoldsDone == pc = "done"
Covers(r, k) == r.start <= k /\ k <= r.end

\* C5: on a page of N lines whose headings at indices >= 3 are h1 < ... < hk,
\* k >= 1, hk < N - 4, the regions returned are [2, h1 - 1], [h1, h2 - 1],
\* ..., [hk, N - 4] in that order: each has start <= end, each starts one line
\* after the one before it ends, and every line from 2 to N - 4 lies in
\* exactly one of them.
C5_RegionsPartitionTheBody ==
    (FoldsDone /\ HeadingLines # {} /\ \A h \in HeadingLines : h < Len(lines) - 4) =>
        /\ outcome.status = "returned"
        /\ LET rs == outcome.value
           IN  /\ Len(rs) = Cardinality(HeadingLines) + 1
               /\ rs[1].start = 2
               /\ rs[Len(rs)].end = Len(lines) - 4
               /\ {rs[j].start : j \in 2..Len(rs)} = HeadingLines
               /\ \A j \in 1..Len(rs) : rs[j].start <= rs[j].end
               /\ \A j \in 1..(Len(rs) - 1) : rs[j + 1].start = rs[j].end + 1
               /\ \A k \in 2..(Len(lines) - 4) :
                      Cardinality({j \in 1..Len(rs) : Covers(rs[j], k)}) = 1

\* witness of C5: headings at lines 3 and 7 gave [2,2], [3,6] and [7, N - 4]
C5_Witness ==
    /\ FoldsDone
    /\ HeadingLines = {3, 7}
    /\ Len(lines) = 12
    /\ outcome.value = <<[start |-> 2, end |-> 2], [start |-> 3, end |-> 6],
                         [start |-> 7, end |-> 8]>>

ClaimFirst == {"A", "B", "\"", "_", ".", ":", "'"}
ClaimRest == ClaimFirst \cup {" ", ",", "-"}
\* line k (0-based, already scanned) closed a region, which is what the scan
\* does with a line it classifies as a heading
ClosedAt(k) == \E j \in 1..Len(result) : result[j].end = k - 1
Scanned == IF pc = "folds" THEN 3..(i - 1) ELSE {}

\* C7 (as claimed): a scanned line is classified as a heading if and only if
\* it has at least one character, its first character is an uppercase letter,
\* double-quote, underscore, period, colon or apostrophe, and every later
\* character is one of those or a space, comma or hyphen.
C7_HeadingClasses ==
    \A k \in Scanned :
        ClosedAt(k) <=>
            LET l == lines[k + 1]
            IN  /\ Len(l) >= 1
                /\ l[1] \in ClaimFirst
                /\ \A c \in 2..Len(l) : l[c] \in ClaimRest

\* C7 (amended): a scanned line is classified as a heading if and only if it
\* has at least two characters, its first character is an uppercase letter,
\* double-quote, underscore, period, colon or apostrophe, and every later
\* character is one of those, a lowercase letter, a space, a comma or a
\* hyphen; so the one-character line 'A' is not a heading and 'Aa' is.
C7_HeadingClassesOfTheCode ==
    \A k \in Scanned :
        ClosedAt(k) <=>
            LET l == lines[k + 1]
            IN  /\ Len(l) >= 2
                /\ l[1] \in ClaimFirst
                /\ \A c \in 2..Len(l) : l[c] \in ClaimRest \cup {"a", "b"}

\* witness of C7: a line with a lowercase letter closed a region
C7_Witness ==
    /\ pc = "folds"
    /\ i = 4
    /\ Contains(lines[4], "a")
    /\ lines[4][1] = "'"
    /\ ClosedAt(3)

====
